---- MODULE Spec2Model ----
(***************************************************************************)
(* Model of minitel.c: the connection-resilience loop of the Minitel text  *)
(* sender (main), the serial link (open_serial_port,                       *)
(* check_serial_connection, close), the screen initialisation              *)
(* (init_minitel_screen), the transmitter (send_file_to_minitel) and the   *)
(* signal handler.                                                         *)
(*                                                                         *)
(* The supervisor is one thread; pc is its position in main and in the     *)
(* function it is executing.  Signals are delivered between any two steps. *)
(* A write(2) either transfers all its bytes or fails; an open descriptor  *)
(* never yields EBADF.  Time (sleep, usleep, the watchdog log line) is not *)
(* modelled: a sleep is a position of pc.                                  *)
(***************************************************************************)
EXTENDS Integers, Sequences, FiniteSets

(* ------------------------------------------------------------------ *)
(* Program constants                                                    *)
(* ------------------------------------------------------------------ *)
CHARS_PER_LINE == 80
LINES_SKIP == 70
MAX_RETRIES == 5
PROBE_EVERY == 100
EOF == -1
LF == 10
CR == 13
FF == 12
INIT_LINES == 10
NOFD == -1
FATAL_STATUS == 1
CLEAN_STATUS == 0

(* ------------------------------------------------------------------ *)
(* Bounds of the model                                                  *)
(* ------------------------------------------------------------------ *)
\* longest source file: two full lines and one byte more
MaxLen == 161
\* fgetc calls past the end of the file that the model follows
MaxPastEnd == 2
\* size of the process's descriptor table: open(2) fails when it is full
MaxFds == 2
\* failed initialisations in a row that the model counts; more than MAX_RETRIES
MaxInitFails == 6

(* ------------------------------------------------------------------ *)
(* Source files                                                         *)
(* ------------------------------------------------------------------ *)
Patterns == {"text", "lines", "latin1"}

\* the i-th byte (1-based) of a source file of the given pattern:
\*   text    printable ASCII only
\*   lines   printable ASCII with a line feed every 7th byte
\*   latin1  printable ASCII with a byte 0xFF every 50 bytes, first at byte 2
SrcByte(pat, i) ==
  IF pat = "lines" /\ i % 7 = 0 THEN LF
  ELSE IF pat = "latin1" /\ i % 50 = 2 THEN 255
  ELSE 32 + (i % 95)

SrcLens == {0, 2, CHARS_PER_LINE, MaxLen}

SourceFiles == { [i \in 1..n |-> SrcByte(pat, i)] : n \in SrcLens, pat \in Patterns }

(* ------------------------------------------------------------------ *)
(* C arithmetic on char                                                 *)
(* ------------------------------------------------------------------ *)
\* the value of (c = v) for char c and int v in -1..255, promoted back to int;
\* char is signed or unsigned depending on the target
ToChar(v, isSigned) ==
  IF isSigned THEN (IF v >= 128 THEN v - 256 ELSE v) ELSE v % 256

\* the byte that write(fd, &c, 1) puts on the link
ByteOf(c) == c % 256

\* fgetc: the next byte of the file as an int 0..255, or EOF at and after its end
Fgetc(f, n) == IF n < Len(f) THEN f[n + 1] ELSE EOF

(* ------------------------------------------------------------------ *)
(* State                                                                *)
(* ------------------------------------------------------------------ *)
VARIABLES
  pc,               \* position of the supervisor thread
  keep_running,     \* static volatile sig_atomic_t keep_running
  reconnect_needed, \* static volatile sig_atomic_t reconnect_needed
  fd_global,        \* static int fd_global
  retry_count,      \* main: int retry_count
  one_shot,         \* main: int one_shot (option -o)
  file,             \* content of the source file (option -f)
  char_signed,      \* whether char is a signed type on the target
  exit_status,      \* value returned by main, read once pc is "terminated"
  open_fds,         \* descriptors open in the kernel's table
  fd_local,         \* open_serial_port: int fd
  nread,            \* send_file_to_minitel: fgetc calls made on the file
  c,                \* send_file_to_minitel: char c
  count,            \* send_file_to_minitel: int count
  bytes_sent,       \* send_file_to_minitel: int bytes_sent
  lf_i,             \* send_file_to_minitel: loop variable i of the line skip
  send_rc,          \* value returned by send_file_to_minitel
  wire,             \* what the latest send has written to the open link, in order
  init_wire,        \* what init_minitel_screen has written to the open link
  file_open,        \* send_file_to_minitel: FILE *file is open
  io_failed,        \* the latest write() on the link returned < 0, its caller has not returned
  last_log,         \* severity of the entry the latest step of main's thread logged
  \* history variables, written by no statement of the program
  consec_fail,      \* open attempts that failed since the last one that succeeded
  ever_opened,      \* some open attempt has succeeded
  stop_requested,   \* SIGINT or SIGTERM has been delivered
  pass_done,        \* some send has returned success
  recovering,       \* a send has failed and no open was attempted since
  cancelled,        \* the current send saw keep_running = 0 in a loop condition
  since_probe,      \* content bytes the current send has written since its last probe
  init_fails,       \* initialisations that failed in a row, with no failed open between
  misuse            \* "none", or the first system call made on a closed descriptor

vars == << pc, keep_running, reconnect_needed, fd_global, retry_count, one_shot,
           file, char_signed, exit_status, open_fds, fd_local, nread, c, count,
           bytes_sent, lf_i, send_rc, wire, init_wire, consec_fail, ever_opened,
           stop_requested, pass_done, recovering, cancelled, misuse, file_open,
           io_failed, last_log, since_probe, init_fails >>

\* groups of variables, for UNCHANGED
config == << one_shot, file, char_signed >>
flags == << keep_running, reconnect_needed >>
sendv == << nread, c, count, bytes_sent, lf_i, send_rc, wire >>
hist == << consec_fail, ever_opened, stop_requested, pass_done, recovering,
           cancelled, misuse >>
aux == << file_open, since_probe, io_failed >>

\* kinds of bytes on the wire
Content(b) == << "content", b >>
Wrap(b) == << "wrap", b >>
Trail(b) == << "trailer", b >>

Init ==
  /\ pc = "loop_head"
  /\ keep_running = 1
  /\ reconnect_needed = 0
  /\ fd_global = NOFD
  /\ retry_count = 0
  /\ one_shot \in {0, 1}
  /\ file \in SourceFiles
  /\ char_signed \in BOOLEAN
  /\ exit_status = CLEAN_STATUS
  /\ open_fds = {}
  /\ fd_local = NOFD
  /\ nread = 0
  /\ c = 0
  /\ count = 0
  /\ bytes_sent = 0
  /\ lf_i = 0
  /\ send_rc = 0
  /\ wire = << >>
  /\ init_wire = << >>
  /\ consec_fail = 0
  /\ ever_opened = FALSE
  /\ stop_requested = FALSE
  /\ pass_done = FALSE
  /\ recovering = FALSE
  /\ cancelled = FALSE
  /\ misuse = "none"
  /\ file_open = FALSE
  /\ io_failed = FALSE
  /\ last_log = "none"
  /\ since_probe = 0
  /\ init_fails = 0

(* ------------------------------------------------------------------ *)
(* The kernel's descriptor table                                        *)
(* ------------------------------------------------------------------ *)
Fds == 0 .. (MaxFds - 1)

\* open(2) returns the lowest descriptor number that is free
LowestFree(fds) == CHOOSE f \in Fds : f \notin fds /\ \A g \in Fds : g < f => g \in fds

\* a system call on fd: remembers the first one made on a descriptor that is not open
Syscall(kind, fd) == IF misuse = "none" /\ fd \notin open_fds THEN kind ELSE misuse

\* a probe that takes any non-negative handle for a live link
CheckSerialConnection_NoErrno(fd, fds) == IF fd < 0 THEN 0 ELSE 1

\* check_serial_connection: 0 on an invalid handle or when the zero-length
\* write fails with EBADF, which it does exactly on a descriptor that is not open
CheckSerialConnection(fd, fds) ==
  IF fd < 0 THEN 0
  ELSE IF fd \notin fds THEN 0
  ELSE 1

(* ------------------------------------------------------------------ *)
(* Signals                                                              *)
(* ------------------------------------------------------------------ *)
Running == pc # "terminated"

\* signal_handler(SIGINT) and signal_handler(SIGTERM)
SignalStop ==
  /\ Running
  /\ keep_running' = 0
  /\ stop_requested' = TRUE
  /\ UNCHANGED << pc, reconnect_needed, fd_global, retry_count, config, exit_status,
                  open_fds, fd_local, sendv, init_wire, consec_fail, ever_opened,
                  pass_done, recovering, cancelled, misuse >>
  /\ UNCHANGED << aux, last_log >>
  /\ UNCHANGED init_fails

\* signal_handler(SIGHUP)
SignalHup ==
  /\ Running
  /\ reconnect_needed' = 1
  /\ UNCHANGED << pc, keep_running, fd_global, retry_count, config, exit_status,
                  open_fds, fd_local, sendv, init_wire, hist >>
  /\ UNCHANGED << aux, last_log >>
  /\ UNCHANGED init_fails

(* ------------------------------------------------------------------ *)
(* main: the outer loop and the open attempts                           *)
(* ------------------------------------------------------------------ *)
\* while (keep_running): the body is entered with an open attempt
MainLoopEnter ==
  /\ pc = "loop_head"
  /\ keep_running # 0
  /\ pc' = "open"
  /\ recovering' = FALSE
  /\ UNCHANGED << flags, fd_global, retry_count, config, exit_status, open_fds,
                  fd_local, sendv, init_wire, consec_fail, ever_opened,
                  stop_requested, pass_done, cancelled, misuse >>
  /\ last_log' = "none"
  /\ UNCHANGED aux
  /\ UNCHANGED init_fails

\* while (keep_running) is false: log and return 0
MainExitClean ==
  /\ pc = "loop_head"
  /\ keep_running = 0
  /\ pc' = "terminated"
  /\ exit_status' = CLEAN_STATUS
  /\ UNCHANGED << flags, fd_global, retry_count, config, open_fds, fd_local, sendv,
                  init_wire, hist >>
  /\ last_log' = "INFO"
  /\ UNCHANGED aux
  /\ UNCHANGED init_fails

Min(a, b) == IF a < b THEN a ELSE b

\* the history of open attempts after one more failure
FailedAgain == Min(consec_fail + 1, MAX_RETRIES + 1)

\* open_serial_port: open(port, ...) fails, or returns a new descriptor
OpenSerialPortOpen ==
  /\ pc = "open"
  /\ \/ /\ fd_local' = NOFD
        /\ fd_global' = NOFD
        /\ pc' = "check_open"
        /\ consec_fail' = FailedAgain
        /\ last_log' = "ERROR"
        /\ init_fails' = 0
        /\ UNCHANGED open_fds
     \/ /\ Cardinality(open_fds) < MaxFds
        /\ fd_local' = LowestFree(open_fds)
        /\ open_fds' = open_fds \cup {fd_local'}
        /\ pc' = "configure"
        /\ last_log' = "none"
        /\ UNCHANGED << fd_global, consec_fail, init_fails >>
  /\ UNCHANGED << flags, retry_count, config, exit_status, sendv, init_wire,
                  ever_opened, stop_requested, pass_done, recovering, cancelled,
                  misuse >>
  /\ UNCHANGED aux

\* open_serial_port returning -1 from a failed configuration without close(fd)
OpenSerialPortConfigFailed_Leak ==
  /\ pc = "configure"
  /\ fd_global' = NOFD
  /\ fd_local' = NOFD
  /\ pc' = "check_open"
  /\ consec_fail' = FailedAgain
  /\ UNCHANGED << flags, retry_count, config, exit_status, open_fds, sendv,
                  init_wire, ever_opened, stop_requested, pass_done, recovering,
                  cancelled, misuse >>
  /\ last_log' = "ERROR"
  /\ UNCHANGED aux
  /\ init_fails' = 0

\* open_serial_port: tcgetattr or tcsetattr fails: close(fd) and return -1
OpenSerialPortConfigFailed ==
  /\ pc = "configure"
  /\ misuse' = Syscall("close", fd_local)
  /\ open_fds' = open_fds \ {fd_local}
  /\ fd_global' = NOFD
  /\ fd_local' = NOFD
  /\ pc' = "check_open"
  /\ consec_fail' = FailedAgain
  /\ UNCHANGED << flags, retry_count, config, exit_status, sendv, init_wire,
                  ever_opened, stop_requested, pass_done, recovering, cancelled >>
  /\ last_log' = "ERROR"
  /\ UNCHANGED aux
  /\ init_fails' = 0

\* open_serial_port: the port is configured: return fd
OpenSerialPortOk ==
  /\ pc = "configure"
  /\ fd_global' = fd_local
  /\ fd_local' = NOFD
  /\ pc' = "check_open"
  /\ consec_fail' = 0
  /\ ever_opened' = TRUE
  /\ UNCHANGED << flags, retry_count, config, exit_status, open_fds, sendv,
                  init_wire, stop_requested, pass_done, recovering, cancelled,
                  misuse >>
  /\ last_log' = "INFO"
  /\ UNCHANGED aux
  /\ UNCHANGED init_fails

\* the budget test one attempt short
RetryExhausted_Early(n) == n >= MAX_RETRIES - 1

\* if (retry_count >= MAX_RETRIES)
RetryExhausted(n) == n >= MAX_RETRIES

\* fd_global < 0, budget exhausted: log FATAL and return 1
MainRetryExhausted ==
  /\ pc = "check_open"
  /\ fd_global < 0
  /\ RetryExhausted(retry_count + 1)
  /\ retry_count' = retry_count + 1
  /\ pc' = "terminated"
  /\ exit_status' = FATAL_STATUS
  /\ UNCHANGED << flags, fd_global, config, open_fds, fd_local, sendv, init_wire,
                  hist >>
  /\ last_log' = "FATAL"
  /\ UNCHANGED aux
  /\ UNCHANGED init_fails

\* a retry wait that does not count the failed attempt
MainRetryWait_NoCount ==
  /\ pc = "check_open"
  /\ fd_global < 0
  /\ ~RetryExhausted(retry_count + 1)
  /\ pc' = "retry_sleep"
  /\ UNCHANGED << flags, fd_global, retry_count, config, exit_status, open_fds,
                  fd_local, sendv, init_wire, hist >>
  /\ last_log' = "WARN"
  /\ UNCHANGED aux
  /\ UNCHANGED init_fails

\* fd_global < 0, budget left: log WARN, sleep(RETRY_DELAY), continue
MainRetryWait ==
  /\ pc = "check_open"
  /\ fd_global < 0
  /\ ~RetryExhausted(retry_count + 1)
  /\ retry_count' = retry_count + 1
  /\ pc' = "retry_sleep"
  /\ UNCHANGED << flags, fd_global, config, exit_status, open_fds, fd_local, sendv,
                  init_wire, hist >>
  /\ last_log' = "WARN"
  /\ UNCHANGED aux
  /\ UNCHANGED init_fails

\* the end of sleep(RETRY_DELAY) after a failed open
MainRetrySleep ==
  /\ pc = "retry_sleep"
  /\ pc' = "loop_head"
  /\ UNCHANGED << flags, fd_global, retry_count, config, exit_status, open_fds,
                  fd_local, sendv, init_wire, hist >>
  /\ last_log' = "none"
  /\ UNCHANGED aux
  /\ UNCHANGED init_fails

\* a successful open that leaves retry_count as it is
MainOpenOk_NoReset ==
  /\ pc = "check_open"
  /\ fd_global >= 0
  /\ reconnect_needed' = 0
  /\ pc' = "init"
  /\ UNCHANGED << keep_running, fd_global, retry_count, config, exit_status,
                  open_fds, fd_local, sendv, init_wire, hist >>
  /\ last_log' = "none"
  /\ UNCHANGED aux
  /\ UNCHANGED init_fails

\* a successful open that resets the retry count only
MainOpenOk_KeepFlag ==
  /\ pc = "check_open"
  /\ fd_global >= 0
  /\ retry_count' = 0
  /\ pc' = "init"
  /\ UNCHANGED << flags, fd_global, config, exit_status, open_fds, fd_local,
                  sendv, init_wire, hist >>
  /\ last_log' = "none"
  /\ UNCHANGED aux
  /\ UNCHANGED init_fails

\* fd_global >= 0: retry_count = 0; reconnect_needed = 0
MainOpenOk ==
  /\ pc = "check_open"
  /\ fd_global >= 0
  /\ retry_count' = 0
  /\ reconnect_needed' = 0
  /\ pc' = "init"
  /\ UNCHANGED << keep_running, fd_global, config, exit_status, open_fds, fd_local,
                  sendv, init_wire, hist >>
  /\ last_log' = "none"
  /\ UNCHANGED aux
  /\ UNCHANGED init_fails

(* ------------------------------------------------------------------ *)
(* init_minitel_screen, and main's handling of its result               *)
(* ------------------------------------------------------------------ *)
\* n line feeds
LineFeeds(n) == [i \in 1..n |-> LF]

\* the handle check, then write(fd, "\x0C", 1)
InitMinitelScreenClear ==
  /\ pc = "init"
  /\ misuse' = IF fd_global < 0 THEN misuse ELSE Syscall("probe", fd_global)
  /\ IF fd_global < 0 \/ CheckSerialConnection(fd_global, open_fds) = 0
       THEN /\ pc' = "init_failed"
            /\ last_log' = "none"
            /\ UNCHANGED << init_wire, io_failed >>
       ELSE \/ /\ pc' = "init_failed"
               /\ last_log' = "ERROR"
               /\ io_failed' = TRUE
               /\ UNCHANGED init_wire
            \/ /\ init_wire' = Append(init_wire, FF)
               /\ pc' = "init_lines"
               /\ last_log' = "none"
               /\ io_failed' = FALSE
  /\ UNCHANGED << flags, fd_global, retry_count, config, exit_status, open_fds,
                  fd_local, sendv, consec_fail, ever_opened, stop_requested,
                  pass_done, recovering, cancelled >>
  /\ UNCHANGED << file_open, since_probe >>
  /\ UNCHANGED init_fails

\* an initialisation that does not look at the result of its second write
InitMinitelScreenLines_Unchecked ==
  /\ pc = "init_lines"
  /\ misuse' = Syscall("write", fd_global)
  /\ \/ /\ pc' = "stream_head"
        /\ last_log' = "INFO"
        /\ io_failed' = FALSE
        /\ UNCHANGED init_wire
     \/ /\ fd_global \in open_fds
        /\ init_wire' = init_wire \o LineFeeds(INIT_LINES)
        /\ pc' = "stream_head"
        /\ last_log' = "INFO"
        /\ io_failed' = FALSE
  /\ UNCHANGED << flags, fd_global, retry_count, config, exit_status, open_fds,
                  fd_local, sendv, consec_fail, ever_opened, stop_requested,
                  pass_done, recovering, cancelled >>
  /\ UNCHANGED << file_open, since_probe >>
  /\ init_fails' = 0

\* usleep(300000), then write(fd, "\n\n\n\n\n\n\n\n\n\n", 10) and return 0
InitMinitelScreenLines ==
  /\ pc = "init_lines"
  /\ misuse' = Syscall("write", fd_global)
  /\ \/ /\ pc' = "init_failed"
        /\ last_log' = "ERROR"
        /\ io_failed' = TRUE
        /\ UNCHANGED << init_wire, init_fails >>
     \/ /\ fd_global \in open_fds
        /\ init_wire' = init_wire \o LineFeeds(INIT_LINES)
        /\ pc' = "stream_head"
        /\ last_log' = "INFO"
        /\ init_fails' = 0
        /\ io_failed' = FALSE
  /\ UNCHANGED << flags, fd_global, retry_count, config, exit_status, open_fds,
                  fd_local, sendv, consec_fail, ever_opened, stop_requested,
                  pass_done, recovering, cancelled >>
  /\ UNCHANGED << file_open, since_probe >>

\* a failed initialisation that closes the descriptor, keeps the handle and
\* goes on to the close at the end of the loop body
MainInitFailed_KeepHandle ==
  /\ pc = "init_failed"
  /\ misuse' = Syscall("close", fd_global)
  /\ open_fds' = open_fds \ {fd_global}
  /\ init_wire' = << >>
  /\ pc' = "close"
  /\ UNCHANGED << flags, fd_global, retry_count, config, exit_status, fd_local,
                  sendv, consec_fail, ever_opened, stop_requested, pass_done,
                  recovering, cancelled >>
  /\ last_log' = "none"
  /\ io_failed' = FALSE
  /\ UNCHANGED << file_open, since_probe >>
  /\ init_fails' = Min(init_fails + 1, MaxInitFails)

\* a failed initialisation that is counted like a failed open
MainInitFailed_Charged ==
  /\ pc = "init_failed"
  /\ misuse' = Syscall("close", fd_global)
  /\ open_fds' = open_fds \ {fd_global}
  /\ fd_global' = NOFD
  /\ init_wire' = << >>
  /\ retry_count' = retry_count + 1
  /\ pc' = "init_fail_sleep"
  /\ UNCHANGED << flags, config, exit_status, fd_local, sendv, consec_fail,
                  ever_opened, stop_requested, pass_done, recovering, cancelled >>
  /\ last_log' = "none"
  /\ io_failed' = FALSE
  /\ UNCHANGED << file_open, since_probe >>
  /\ init_fails' = Min(init_fails + 1, MaxInitFails)

\* init_minitel_screen(fd_global) < 0: close(fd_global); fd_global = -1
MainInitFailed ==
  /\ pc = "init_failed"
  /\ misuse' = Syscall("close", fd_global)
  /\ open_fds' = open_fds \ {fd_global}
  /\ fd_global' = NOFD
  /\ init_wire' = << >>
  /\ pc' = "init_fail_sleep"
  /\ UNCHANGED << flags, retry_count, config, exit_status, fd_local, sendv,
                  consec_fail, ever_opened, stop_requested, pass_done, recovering,
                  cancelled >>
  /\ last_log' = "none"
  /\ io_failed' = FALSE
  /\ UNCHANGED << file_open, since_probe >>
  /\ init_fails' = Min(init_fails + 1, MaxInitFails)

\* the end of sleep(RETRY_DELAY) after a failed initialisation; continue
MainInitFailSleep ==
  /\ pc = "init_fail_sleep"
  /\ pc' = "loop_head"
  /\ UNCHANGED << flags, fd_global, retry_count, config, exit_status, open_fds,
                  fd_local, sendv, init_wire, hist >>
  /\ last_log' = "none"
  /\ UNCHANGED aux
  /\ UNCHANGED init_fails

(* ------------------------------------------------------------------ *)
(* main: the streaming loop                                             *)
(* ------------------------------------------------------------------ *)
\* a streaming loop whose condition tests reconnect_needed only
MainStreamEnter_NoStop ==
  /\ pc = "stream_head"
  /\ reconnect_needed = 0
  /\ pc' = "send_start"
  /\ UNCHANGED << flags, fd_global, retry_count, config, exit_status, open_fds,
                  fd_local, sendv, init_wire, hist >>
  /\ last_log' = "none"
  /\ UNCHANGED aux
  /\ UNCHANGED init_fails

\* while (keep_running && !reconnect_needed): call send_file_to_minitel
MainStreamEnter ==
  /\ pc = "stream_head"
  /\ keep_running # 0 /\ reconnect_needed = 0
  /\ pc' = "send_start"
  /\ UNCHANGED << flags, fd_global, retry_count, config, exit_status, open_fds,
                  fd_local, sendv, init_wire, hist >>
  /\ last_log' = "none"
  /\ UNCHANGED aux
  /\ UNCHANGED init_fails

\* while (keep_running && !reconnect_needed) is false
MainStreamLeave ==
  /\ pc = "stream_head"
  /\ ~(keep_running # 0 /\ reconnect_needed = 0)
  /\ pc' = "close"
  /\ UNCHANGED << flags, fd_global, retry_count, config, exit_status, open_fds,
                  fd_local, sendv, init_wire, hist >>
  /\ last_log' = "none"
  /\ UNCHANGED aux
  /\ UNCHANGED init_fails

\* the locals and the result of send_file_to_minitel once main has read the result
SendFrameGone ==
  /\ nread' = 0
  /\ c' = 0
  /\ count' = 0
  /\ bytes_sent' = 0
  /\ lf_i' = 0
  /\ send_rc' = 0
  /\ since_probe' = 0
  /\ io_failed' = FALSE
  /\ UNCHANGED file_open

\* a failed send that leaves the streaming loop without reconnect_needed = 1
MainSendFailed_NoFlag ==
  /\ pc = "send_ret"
  /\ send_rc < 0
  /\ recovering' = TRUE
  /\ pc' = "close"
  /\ SendFrameGone
  /\ UNCHANGED << flags, fd_global, retry_count, config, exit_status, open_fds,
                  fd_local, wire, init_wire, consec_fail, ever_opened,
                  stop_requested, pass_done, cancelled, misuse >>
  /\ last_log' = "ERROR"
  /\ UNCHANGED init_fails

\* send_file_to_minitel(...) < 0: reconnect_needed = 1; break
MainSendFailed ==
  /\ pc = "send_ret"
  /\ send_rc < 0
  /\ reconnect_needed' = 1
  /\ recovering' = TRUE
  /\ pc' = "close"
  /\ SendFrameGone
  /\ UNCHANGED << keep_running, fd_global, retry_count, config, exit_status,
                  open_fds, fd_local, wire, init_wire, consec_fail, ever_opened,
                  stop_requested, pass_done, cancelled, misuse >>
  /\ last_log' = "ERROR"
  /\ UNCHANGED init_fails

\* a successful send that ignores the one-shot option
MainSendOk_Loop ==
  /\ pc = "send_ret"
  /\ send_rc >= 0
  /\ pass_done' = TRUE
  /\ pc' = "pass_sleep"
  /\ SendFrameGone
  /\ UNCHANGED << flags, fd_global, retry_count, config, exit_status, open_fds,
                  fd_local, wire, init_wire, consec_fail, ever_opened,
                  stop_requested, recovering, cancelled, misuse >>
  /\ last_log' = "none"
  /\ UNCHANGED init_fails

\* the send succeeded: in one-shot mode keep_running = 0 and break, else sleep(1)
MainSendOk ==
  /\ pc = "send_ret"
  /\ send_rc >= 0
  /\ pass_done' = TRUE
  /\ IF one_shot # 0
       THEN /\ keep_running' = 0
            /\ pc' = "close"
       ELSE /\ pc' = "pass_sleep"
            /\ UNCHANGED keep_running
  /\ SendFrameGone
  /\ UNCHANGED << reconnect_needed, fd_global, retry_count, config, exit_status,
                  open_fds, fd_local, wire, init_wire, consec_fail, ever_opened,
                  stop_requested, recovering, cancelled, misuse >>
  /\ last_log' = IF one_shot # 0 THEN "INFO" ELSE "none"
  /\ UNCHANGED init_fails

\* the end of sleep(1) between two passes
MainPassSleep ==
  /\ pc = "pass_sleep"
  /\ pc' = "stream_head"
  /\ UNCHANGED << flags, fd_global, retry_count, config, exit_status, open_fds,
                  fd_local, sendv, init_wire, hist >>
  /\ last_log' = "none"
  /\ UNCHANGED aux
  /\ UNCHANGED init_fails

\* if (fd_global >= 0) { close(fd_global); fd_global = -1; }
MainClose ==
  /\ pc = "close"
  /\ IF fd_global >= 0
       THEN /\ misuse' = Syscall("close", fd_global)
            /\ open_fds' = open_fds \ {fd_global}
            /\ fd_global' = NOFD
            /\ wire' = << >>
            /\ init_wire' = << >>
       ELSE UNCHANGED << misuse, open_fds, fd_global, wire, init_wire >>
  /\ pc' = "after_close"
  /\ UNCHANGED << flags, retry_count, config, exit_status, fd_local, nread, c,
                  count, bytes_sent, lf_i, send_rc, consec_fail, ever_opened,
                  stop_requested, pass_done, recovering, cancelled >>
  /\ last_log' = IF fd_global >= 0 THEN "INFO" ELSE "none"
  /\ UNCHANGED aux
  /\ UNCHANGED init_fails

\* if (reconnect_needed && keep_running): log and sleep(5)
MainReconnectWait ==
  /\ pc = "after_close"
  /\ reconnect_needed # 0 /\ keep_running # 0
  /\ pc' = "reconnect_sleep"
  /\ UNCHANGED << flags, fd_global, retry_count, config, exit_status, open_fds,
                  fd_local, sendv, init_wire, hist >>
  /\ last_log' = "INFO"
  /\ UNCHANGED aux
  /\ UNCHANGED init_fails

\* if (reconnect_needed && keep_running) is false: the loop body ends
MainNoReconnectWait ==
  /\ pc = "after_close"
  /\ ~(reconnect_needed # 0 /\ keep_running # 0)
  /\ pc' = "loop_head"
  /\ UNCHANGED << flags, fd_global, retry_count, config, exit_status, open_fds,
                  fd_local, sendv, init_wire, hist >>
  /\ last_log' = "none"
  /\ UNCHANGED aux
  /\ UNCHANGED init_fails

\* the end of sleep(5) before a reconnection
MainReconnectSleep ==
  /\ pc = "reconnect_sleep"
  /\ pc' = "loop_head"
  /\ UNCHANGED << flags, fd_global, retry_count, config, exit_status, open_fds,
                  fd_local, sendv, init_wire, hist >>
  /\ last_log' = "none"
  /\ UNCHANGED aux
  /\ UNCHANGED init_fails

(* ------------------------------------------------------------------ *)
(* send_file_to_minitel                                                 *)
(* ------------------------------------------------------------------ *)
\* a probe every 200 bytes
ProbeDue_Rare(n) == n % (2 * PROBE_EVERY) = 0

\* if (bytes_sent % 100 == 0 && !check_serial_connection(fd))
ProbeDue(n) == n % PROBE_EVERY = 0

\* the line-width test off by one
LineFull_Late(n) == n > CHARS_PER_LINE

\* if (count >= CHARS_PER_LINE)
LineFull(n) == n >= CHARS_PER_LINE

\* the handle check and fopen(filename, "r"), which fails when the source is unreadable
SendStart ==
  /\ pc = "send_start"
  /\ misuse' = IF fd_global < 0 THEN misuse ELSE Syscall("probe", fd_global)
  /\ count' = 0
  /\ bytes_sent' = 0
  /\ nread' = 0
  /\ wire' = << >>
  /\ cancelled' = FALSE
  /\ IF fd_global < 0 \/ CheckSerialConnection(fd_global, open_fds) = 0
       THEN /\ send_rc' = -1
            /\ pc' = "send_ret"
            /\ last_log' = "ERROR"
            /\ UNCHANGED file_open
       ELSE \/ /\ send_rc' = -1
               /\ pc' = "send_ret"
               /\ last_log' = "ERROR"
               /\ UNCHANGED file_open
            \/ /\ pc' = "s_loop"
               /\ file_open' = TRUE
               /\ last_log' = "none"
               /\ UNCHANGED send_rc
  /\ UNCHANGED << flags, fd_global, retry_count, config, exit_status, open_fds,
                  fd_local, c, lf_i, init_wire, consec_fail, ever_opened,
                  stop_requested, pass_done, recovering >>
  /\ since_probe' = 0
  /\ io_failed' = FALSE
  /\ UNCHANGED init_fails

\* while (keep_running && (c = fgetc(file)) != EOF) has keep_running = 0
SendLoopStopped ==
  /\ pc = "s_loop"
  /\ keep_running = 0
  /\ cancelled' = TRUE
  /\ pc' = "s_cr"
  /\ UNCHANGED << flags, fd_global, retry_count, config, exit_status, open_fds,
                  fd_local, sendv, init_wire, consec_fail, ever_opened,
                  stop_requested, pass_done, recovering, misuse >>
  /\ last_log' = "none"
  /\ UNCHANGED aux
  /\ UNCHANGED init_fails

\* one evaluation of the loop condition with keep_running set, and the head
\* of the loop body: the periodic probe and the line-feed filter
SendLoopRead ==
  /\ pc = "s_loop"
  /\ keep_running # 0
  /\ nread < Len(file) + MaxPastEnd
  /\ nread' = nread + 1
  /\ c' = ToChar(Fgetc(file, nread), char_signed)
  /\ IF c' = EOF
       THEN /\ pc' = "s_cr"
            /\ last_log' = "none"
            /\ UNCHANGED << send_rc, misuse, file_open, since_probe >>
       ELSE /\ misuse' = IF ProbeDue(bytes_sent) THEN Syscall("probe", fd_global)
                         ELSE misuse
            /\ IF ProbeDue(bytes_sent) /\ CheckSerialConnection(fd_global, open_fds) = 0
                 THEN /\ send_rc' = -1
                      /\ pc' = "send_ret"
                      /\ last_log' = "ERROR"
                      /\ file_open' = FALSE
                 ELSE /\ pc' = IF c' = LF THEN "s_loop" ELSE "s_write"
                      /\ last_log' = "none"
                      /\ UNCHANGED << send_rc, file_open >>
            /\ since_probe' = IF ProbeDue(bytes_sent) THEN 0 ELSE since_probe
  /\ UNCHANGED << flags, fd_global, retry_count, config, exit_status, open_fds,
                  fd_local, count, bytes_sent, lf_i, wire, init_wire, consec_fail,
                  ever_opened, stop_requested, pass_done, recovering, cancelled >>
  /\ UNCHANGED io_failed
  /\ UNCHANGED init_fails

\* write(fd, &c, 1); bytes_sent++; count++; usleep(delay) unless the line is full
SendWrite ==
  /\ pc = "s_write"
  /\ misuse' = Syscall("write", fd_global)
  /\ \/ /\ send_rc' = -1
        /\ pc' = "send_ret"
        /\ last_log' = "ERROR"
        /\ io_failed' = TRUE
        /\ file_open' = FALSE
        /\ UNCHANGED since_probe
        /\ UNCHANGED << wire, bytes_sent, count >>
     \/ /\ fd_global \in open_fds
        /\ last_log' = "none"
        /\ io_failed' = FALSE
        /\ since_probe' = since_probe + 1
        /\ UNCHANGED file_open
        /\ wire' = Append(wire, Content(ByteOf(c)))
        /\ bytes_sent' = bytes_sent + 1
        /\ count' = count + 1
        /\ pc' = IF LineFull(count') THEN "s_wrap" ELSE "s_loop"
        /\ UNCHANGED send_rc
  /\ UNCHANGED << flags, fd_global, retry_count, config, exit_status, open_fds,
                  fd_local, nread, c, lf_i, init_wire, consec_fail, ever_opened,
                  stop_requested, pass_done, recovering, cancelled >>
  /\ UNCHANGED init_fails

\* a wrap that leaves count as it is
SendWrap_NoReset ==
  /\ pc = "s_wrap"
  /\ misuse' = Syscall("write", fd_global)
  /\ \/ /\ send_rc' = -1
        /\ pc' = "send_ret"
        /\ last_log' = "ERROR"
        /\ io_failed' = TRUE
        /\ file_open' = FALSE
        /\ UNCHANGED << wire, count >>
     \/ /\ fd_global \in open_fds
        /\ last_log' = "none"
        /\ io_failed' = FALSE
        /\ UNCHANGED << file_open, count >>
        /\ wire' = wire \o << Wrap(CR), Wrap(LF) >>
        /\ pc' = "s_loop"
        /\ UNCHANGED send_rc
  /\ UNCHANGED << flags, fd_global, retry_count, config, exit_status, open_fds,
                  fd_local, nread, c, bytes_sent, lf_i, init_wire, consec_fail,
                  ever_opened, stop_requested, pass_done, recovering, cancelled >>
  /\ UNCHANGED since_probe
  /\ UNCHANGED init_fails

\* a wrap whose failed write is followed by the next iteration of the loop
SendWrap_Retry ==
  /\ pc = "s_wrap"
  /\ misuse' = Syscall("write", fd_global)
  /\ \/ /\ last_log' = "ERROR"
        /\ io_failed' = TRUE
        /\ pc' = "s_loop"
        /\ UNCHANGED << wire, count, send_rc, file_open >>
     \/ /\ fd_global \in open_fds
        /\ last_log' = "none"
        /\ io_failed' = FALSE
        /\ UNCHANGED file_open
        /\ wire' = wire \o << Wrap(CR), Wrap(LF) >>
        /\ count' = 0
        /\ pc' = "s_loop"
        /\ UNCHANGED send_rc
  /\ UNCHANGED << flags, fd_global, retry_count, config, exit_status, open_fds,
                  fd_local, nread, c, bytes_sent, lf_i, init_wire, consec_fail,
                  ever_opened, stop_requested, pass_done, recovering, cancelled >>
  /\ UNCHANGED since_probe
  /\ UNCHANGED init_fails

\* write(fd, "\r\n", 2); count = 0; usleep(delay)
SendWrap ==
  /\ pc = "s_wrap"
  /\ misuse' = Syscall("write", fd_global)
  /\ \/ /\ send_rc' = -1
        /\ pc' = "send_ret"
        /\ last_log' = "ERROR"
        /\ io_failed' = TRUE
        /\ file_open' = FALSE
        /\ UNCHANGED << wire, count >>
     \/ /\ fd_global \in open_fds
        /\ last_log' = "none"
        /\ io_failed' = FALSE
        /\ UNCHANGED file_open
        /\ wire' = wire \o << Wrap(CR), Wrap(LF) >>
        /\ count' = 0
        /\ pc' = "s_loop"
        /\ UNCHANGED send_rc
  /\ UNCHANGED << flags, fd_global, retry_count, config, exit_status, open_fds,
                  fd_local, nread, c, bytes_sent, lf_i, init_wire, consec_fail,
                  ever_opened, stop_requested, pass_done, recovering, cancelled >>
  /\ UNCHANGED since_probe
  /\ UNCHANGED init_fails

\* fclose(file); write(fd, "\r", 1); the line skip starts with i = 0
SendCarriageReturn ==
  /\ pc = "s_cr"
  /\ misuse' = Syscall("write", fd_global)
  /\ \/ /\ send_rc' = -1
        /\ pc' = "send_ret"
        /\ last_log' = "ERROR"
        /\ io_failed' = TRUE
        /\ UNCHANGED << wire, lf_i >>
     \/ /\ fd_global \in open_fds
        /\ last_log' = "none"
        /\ io_failed' = FALSE
        /\ wire' = Append(wire, Trail(CR))
        /\ lf_i' = 0
        /\ pc' = "s_lf"
        /\ UNCHANGED send_rc
  /\ UNCHANGED << flags, fd_global, retry_count, config, exit_status, open_fds,
                  fd_local, nread, c, count, bytes_sent, init_wire, consec_fail,
                  ever_opened, stop_requested, pass_done, recovering, cancelled >>
  /\ file_open' = FALSE
  /\ UNCHANGED since_probe
  /\ UNCHANGED init_fails

\* a line skip whose loop condition tests the index only
SendLineSkip_NoStopCheck ==
  /\ pc = "s_lf"
  /\ lf_i < LINES_SKIP
  /\ misuse' = Syscall("write", fd_global)
  /\ \/ /\ send_rc' = -1
        /\ pc' = "send_ret"
        /\ last_log' = "ERROR"
        /\ io_failed' = TRUE
        /\ UNCHANGED << wire, lf_i >>
     \/ /\ fd_global \in open_fds
        /\ last_log' = "none"
        /\ io_failed' = FALSE
        /\ wire' = Append(wire, Trail(LF))
        /\ lf_i' = lf_i + 1
        /\ UNCHANGED << pc, send_rc >>
  /\ UNCHANGED << flags, fd_global, retry_count, config, exit_status, open_fds,
                  fd_local, nread, c, count, bytes_sent, init_wire, consec_fail,
                  ever_opened, stop_requested, pass_done, recovering, cancelled >>
  /\ UNCHANGED << file_open, since_probe >>
  /\ UNCHANGED init_fails

\* for (i = 0; i < LINES_SKIP && keep_running; i++) write(fd, "\n", 1)
SendLineSkip ==
  /\ pc = "s_lf"
  /\ lf_i < LINES_SKIP /\ keep_running # 0
  /\ misuse' = Syscall("write", fd_global)
  /\ \/ /\ send_rc' = -1
        /\ pc' = "send_ret"
        /\ last_log' = "ERROR"
        /\ io_failed' = TRUE
        /\ UNCHANGED << wire, lf_i >>
     \/ /\ fd_global \in open_fds
        /\ last_log' = "none"
        /\ io_failed' = FALSE
        /\ wire' = Append(wire, Trail(LF))
        /\ lf_i' = lf_i + 1
        /\ UNCHANGED << pc, send_rc >>
  /\ UNCHANGED << flags, fd_global, retry_count, config, exit_status, open_fds,
                  fd_local, nread, c, count, bytes_sent, init_wire, consec_fail,
                  ever_opened, stop_requested, pass_done, recovering, cancelled >>
  /\ UNCHANGED << file_open, since_probe >>
  /\ UNCHANGED init_fails

\* the line skip ends: log the byte count and return 0
SendReturnOk ==
  /\ pc = "s_lf"
  /\ ~(lf_i < LINES_SKIP /\ keep_running # 0)
  /\ cancelled' = (cancelled \/ lf_i < LINES_SKIP)
  /\ send_rc' = 0
  /\ pc' = "send_ret"
  /\ UNCHANGED << flags, fd_global, retry_count, config, exit_status, open_fds,
                  fd_local, nread, c, count, bytes_sent, lf_i, wire, init_wire,
                  consec_fail, ever_opened, stop_requested, pass_done, recovering,
                  misuse >>
  /\ last_log' = "INFO"
  /\ UNCHANGED aux
  /\ UNCHANGED init_fails

(* ------------------------------------------------------------------ *)
(* The program                                                          *)
(* ------------------------------------------------------------------ *)
Next ==
  \/ SignalStop
  \/ SignalHup
  \/ MainLoopEnter
  \/ MainExitClean
  \/ OpenSerialPortOpen
  \/ OpenSerialPortConfigFailed
  \/ OpenSerialPortOk
  \/ MainRetryExhausted
  \/ MainRetryWait
  \/ MainRetrySleep
  \/ MainOpenOk
  \/ InitMinitelScreenClear
  \/ InitMinitelScreenLines
  \/ MainInitFailed
  \/ MainInitFailSleep
  \/ MainStreamEnter
  \/ MainStreamLeave
  \/ MainSendFailed
  \/ MainSendOk
  \/ MainPassSleep
  \/ MainClose
  \/ MainReconnectWait
  \/ MainNoReconnectWait
  \/ MainReconnectSleep
  \/ SendStart
  \/ SendLoopStopped
  \/ SendLoopRead
  \/ SendWrite
  \/ SendWrap
  \/ SendCarriageReturn
  \/ SendLineSkip
  \/ SendReturnOk

Spec == Init /\ [][Next]_vars

(* ------------------------------------------------------------------ *)
(* init_minitel_screen and send_file_to_minitel as functions of their   *)
(* argument: one call of either, on any value an int handle can hold    *)
(* (negative, a descriptor that is open, a descriptor that is not)      *)
(* ------------------------------------------------------------------ *)
UnitInit ==
  /\ pc \in {"init", "send_start"}
  /\ fd_global \in {NOFD} \cup Fds
  /\ open_fds \in SUBSET Fds
  /\ keep_running = 1
  /\ reconnect_needed = 0
  /\ retry_count = 0
  /\ one_shot \in {0, 1}
  /\ file \in SourceFiles
  /\ char_signed \in BOOLEAN
  /\ exit_status = CLEAN_STATUS
  /\ fd_local = NOFD
  /\ nread = 0
  /\ c = 0
  /\ count = 0
  /\ bytes_sent = 0
  /\ lf_i = 0
  /\ send_rc = 0
  /\ wire = << >>
  /\ init_wire = << >>
  /\ consec_fail = 0
  /\ ever_opened = FALSE
  /\ stop_requested = FALSE
  /\ pass_done = FALSE
  /\ recovering = FALSE
  /\ cancelled = FALSE
  /\ misuse = "none"
  /\ file_open = FALSE
  /\ io_failed = FALSE
  /\ last_log = "none"
  /\ since_probe = 0
  /\ init_fails = 0

UnitNext ==
  \/ SignalStop
  \/ InitMinitelScreenClear
  \/ InitMinitelScreenLines
  \/ SendStart
  \/ SendLoopStopped
  \/ SendLoopRead
  \/ SendWrite
  \/ SendWrap
  \/ SendCarriageReturn
  \/ SendLineSkip
  \/ SendReturnOk

UnitSpec == UnitInit /\ [][UnitNext]_vars

(* ------------------------------------------------------------------ *)
(* Vocabulary of the properties                                         *)
(* ------------------------------------------------------------------ *)
Terminated == pc = "terminated"
Fatal == Terminated /\ exit_status = FATAL_STATUS

\* positions inside send_file_to_minitel
SendPcs == {"send_start", "s_loop", "s_write", "s_wrap", "s_cr", "s_lf"}

\* positions of an open attempt and of the initialisation that follows it
OpenPcs == {"open", "configure", "check_open", "init", "init_lines", "init_failed"}

\* positions at which the next statement probes or writes the link
LinkUsePcs == {"init", "init_lines", "send_start", "s_loop", "s_write", "s_wrap",
               "s_cr", "s_lf"}

\* positions at which main holds no descriptor
NoLinkPcs == {"loop_head", "open", "retry_sleep", "init_fail_sleep", "after_close",
              "reconnect_sleep", "terminated"}

IsContent(e) == e[1] = "content"
IsWrapCR(e) == e = Wrap(CR)

\* number of content bytes on the wire
Forwarded(w) == Len(SelectSeq(w, IsContent))

\* number of wrap sequences on the wire
Wraps(w) == Len(SelectSeq(w, IsWrapCR))

\* the content bytes on the wire, in order
ContentBytes(w) == LET s == SelectSeq(w, IsContent) IN [i \in 1..Len(s) |-> s[i][2]]

IsNotLF(b) == b # LF

\* the source without its line feeds
StripLF(f) == SelectSeq(f, IsNotLF)

(* ------------------------------------------------------------------ *)
(* C1  retry budget                                                     *)
(* ------------------------------------------------------------------ *)
\* C1: the supervisor terminates with status 1 exactly when MAX_RETRIES open
\* attempts in a row have failed: the history never exceeds MAX_RETRIES, a fatal
\* exit has exactly MAX_RETRIES failures behind it, MAX_RETRIES failures leave
\* only the fatal exit, and retry_count equals the number of failures since the
\* last success (so the first failure after a success counts as 1).
C1_RetryBudget ==
  /\ consec_fail <= MAX_RETRIES
  /\ Fatal => consec_fail = MAX_RETRIES
  /\ consec_fail = MAX_RETRIES => (pc = "check_open" \/ Fatal)
  /\ pc # "check_open" => retry_count = consec_fail
  /\ (pc = "check_open" /\ fd_global < 0) => retry_count = consec_fail - 1

\* a fatal exit reached after a link had been opened: the count had restarted
C1_Witness == Fatal /\ ever_opened /\ retry_count = MAX_RETRIES

(* ------------------------------------------------------------------ *)
(* C2  reconnection after a failed send                                 *)
(* ------------------------------------------------------------------ *)
\* C2 as stated: after a failed send the supervisor sets reconnect_needed, leaves
\* the streaming loop, closes the link, waits, attempts to open again and does
\* not terminate.
C2_AlwaysReconnects ==
  [][ /\ (~recovering /\ recovering') => (reconnect_needed' = 1 /\ pc' = "close")
      /\ (recovering /\ pc = "close" /\ pc' # pc) =>
            (pc' = "after_close" /\ fd_global' = NOFD /\ open_fds' = {})
      /\ (recovering /\ pc = "after_close" /\ pc' # pc) => pc' = "reconnect_sleep"
      /\ (recovering /\ pc = "reconnect_sleep" /\ pc' # pc) => pc' = "loop_head"
      /\ (recovering /\ pc = "loop_head" /\ pc' # pc) => pc' = "open"
      /\ recovering => pc' # "terminated" ]_vars

\* C2 (amended): after a failed send the supervisor sets reconnect_needed, leaves
\* the streaming loop and closes the link; while keep_running is set it then
\* waits and attempts to open again; once keep_running is clear it skips the
\* wait and terminates with status 0.
C2_ReconnectsUnlessStopped ==
  [][ /\ (~recovering /\ recovering') => (reconnect_needed' = 1 /\ pc' = "close")
      /\ (recovering /\ pc = "close" /\ pc' # pc) =>
            (pc' = "after_close" /\ fd_global' = NOFD /\ open_fds' = {})
      /\ (recovering /\ pc = "after_close" /\ pc' # pc) =>
            pc' = (IF keep_running # 0 THEN "reconnect_sleep" ELSE "loop_head")
      /\ (recovering /\ pc = "reconnect_sleep" /\ pc' # pc) => pc' = "loop_head"
      /\ (recovering /\ pc = "loop_head" /\ pc' # pc) =>
            pc' = (IF keep_running # 0 THEN "open" ELSE "terminated")
      /\ (recovering /\ pc' = "terminated") =>
            (keep_running = 0 /\ exit_status' = CLEAN_STATUS) ]_vars

\* the wait before the reconnection, after a failed send
C2_Witness == recovering /\ pc = "reconnect_sleep" /\ reconnect_needed = 1

(* ------------------------------------------------------------------ *)
(* C3  where the fatal exit comes from                                  *)
(* ------------------------------------------------------------------ *)
\* C3 as stated: once a link has been opened, no later open failure makes the
\* process terminate with status 1.
C3_NeverFatalAfterOpen == ever_opened => ~Fatal

\* C3 (amended): status 1 is set by one step only, the MAX_RETRIES-th failed
\* open in a row, with no descriptor open; the budget is the same after a
\* working session as on the initial connect.
C3_FatalOnlyByExhaustion ==
  [][ (pc' = "terminated" /\ pc # "terminated" /\ exit_status' = FATAL_STATUS) =>
        /\ pc = "check_open"
        /\ fd_global < 0
        /\ open_fds = {}
        /\ retry_count' = MAX_RETRIES
        /\ consec_fail = MAX_RETRIES ]_vars

\* a fatal exit after a pass had been sent
C3_Witness == Fatal /\ pass_done

(* ------------------------------------------------------------------ *)
(* C4  clean shutdown                                                   *)
(* ------------------------------------------------------------------ *)
\* C4: once SIGINT or SIGTERM has been delivered, the process does not
\* terminate with a status other than 0.
C4_StopExitsClean == (Terminated /\ stop_requested) => exit_status = CLEAN_STATUS

(* ------------------------------------------------------------------ *)
(* C5  cooperative cancellation                                         *)
(* ------------------------------------------------------------------ *)
\* the loop condition of the send has seen keep_running = 0 with part of the
\* source read and part of it still unread
CancelledMidStream == cancelled /\ 0 < nread /\ nread < Len(file)

\* C5: once the send has been cancelled mid-stream, nothing more is written to
\* the link and the send returns 0; a cancelled run exits with status 0.
C5_NoWriteAfterStop ==
  [][ /\ CancelledMidStream =>
           /\ Len(wire') <= Len(wire)
           /\ (pc' = "send_ret" => send_rc' = 0)
      /\ (cancelled /\ pc' = "terminated") => exit_status' = CLEAN_STATUS ]_vars

(* ------------------------------------------------------------------ *)
(* C6  one-shot mode                                                    *)
(* ------------------------------------------------------------------ *)
\* C6: in one-shot mode the first send that returns success clears keep_running
\* and leaves the streaming loop; after it no send and no open attempt is
\* started, and the process terminates only with status 0 and the link closed;
\* a failed send changes neither keep_running nor pass_done and goes to the
\* reconnection path with reconnect_needed = 1.
C6_OneShot ==
  [][ one_shot # 0 =>
        /\ (~pass_done /\ pass_done') =>
              (pc = "send_ret" /\ send_rc >= 0 /\ keep_running' = 0 /\ pc' = "close")
        /\ pass_done =>
              /\ pass_done'
              /\ keep_running' = 0
              /\ pc' \notin (SendPcs \cup OpenPcs \cup {"send_ret", "stream_head"})
              /\ pc' = "terminated" => (exit_status' = CLEAN_STATUS /\ open_fds' = {})
        /\ (pc = "send_ret" /\ send_rc < 0 /\ pc' # pc) =>
              /\ pc' = "close"
              /\ reconnect_needed' = 1
              /\ keep_running' = keep_running
              /\ ~pass_done' ]_vars

\* a one-shot run that ended, with no stop request, after its pass
C6_Witness ==
  one_shot # 0 /\ pass_done /\ Terminated /\ exit_status = CLEAN_STATUS
  /\ ~stop_requested

(* ------------------------------------------------------------------ *)
(* C7  no descriptor leak                                               *)
(* ------------------------------------------------------------------ *)
\* C7: at most one descriptor is open; none is open when an open attempt starts,
\* after a failed attempt, in any wait and at termination; during the
\* configuration the open descriptor is the one open_serial_port holds, and
\* otherwise it is fd_global.
C7_NoDescriptorLeak ==
  /\ Cardinality(open_fds) <= 1
  /\ pc \in NoLinkPcs => open_fds = {}
  /\ (pc = "check_open" /\ fd_global < 0) => open_fds = {}
  /\ pc = "configure" => open_fds = {fd_local}
  /\ (pc \notin NoLinkPcs /\ pc # "configure" /\ ~(pc = "check_open" /\ fd_global < 0))
        => open_fds = {fd_global}

\* the process has terminated after a link had been opened, used and closed
C7_Witness == Terminated /\ ever_opened /\ pass_done /\ open_fds = {}

(* ------------------------------------------------------------------ *)
(* C8  lifecycle of the link handle                                     *)
(* ------------------------------------------------------------------ *)
\* C8: no system call is made on a descriptor that is not open (no second
\* close, no probe or write after close); a handle that is not the invalid
\* value names an open descriptor; wherever the next statement probes or
\* writes the link, fd_global is open.
C8_HandleLifecycle ==
  /\ misuse = "none"
  /\ fd_global >= 0 => fd_global \in open_fds
  /\ pc \in LinkUsePcs => fd_global \in open_fds

\* the link has just been closed at the end of the loop body
C8_Witness == pc = "after_close" /\ fd_global = NOFD /\ open_fds = {} /\ ever_opened

(* ------------------------------------------------------------------ *)
(* C9  what a complete pass forwards                                    *)
(* ------------------------------------------------------------------ *)
\* C9: a send that returns success without having seen a stop request has
\* forwarded exactly the source bytes other than line feeds, in source order.
C9_ForwardsAllButLineFeeds ==
  (pc = "send_ret" /\ send_rc = 0 /\ ~cancelled) => ContentBytes(wire) = StripLF(file)

IsTrailer(e) == e[1] = "trailer"

\* what the current send has written after its reading loop
Trailer(w) == SelectSeq(w, IsTrailer)

\* the trailer so far is at the end of the wire and is one CR, then line feeds
\* only, LINES_SKIP of them at most
TrailerShape ==
  LET t == Trailer(wire)
  IN /\ \A j \in 1..Len(wire) :
          IsTrailer(wire[j]) => \A k \in j..Len(wire) : IsTrailer(wire[k])
     /\ Len(t) <= 1 + LINES_SKIP
     /\ \A k \in 1..Len(t) : t[k] = IF k = 1 THEN Trail(CR) ELSE Trail(LF)
     /\ pc = "s_lf" => Len(t) = 1 + lf_i
     /\ pc \in {"s_loop", "s_write", "s_wrap", "s_cr"} => t = << >>

FailureLevels == {"ERROR", "WARN", "FATAL"}

C13_DeadHandleRefused ==
  fd_global \notin open_fds =>
    /\ CheckSerialConnection(fd_global, open_fds) = 0
    /\ pc \in {"init", "init_failed", "send_start", "send_ret"}
    /\ pc = "send_ret" => (send_rc = -1 /\ last_log = "ERROR")
    /\ ~file_open
    /\ wire = << >>
    /\ init_wire = << >>

\* a send has returned from a call on a closed descriptor
C13_Witness ==
  /\ pc = "send_ret" /\ send_rc = -1
  /\ fd_global >= 0 /\ fd_global \notin open_fds

(* ------------------------------------------------------------------ *)
(* C14  retry_count                                                     *)
(* ------------------------------------------------------------------ *)
\* C14: retry_count stays within 0..MAX_RETRIES; main's test of the result of
\* an open attempt adds exactly 1 when the attempt failed and sets it to 0 when
\* it succeeded; no other step (signal, initialisation, send, close, sleep)
\* changes it.
C14_RetryCount ==
  /\ [](retry_count \in 0..MAX_RETRIES)
  /\ [][(pc = "check_open" /\ pc' # pc) =>
          retry_count' = IF fd_global < 0 THEN retry_count + 1 ELSE 0]_vars
  /\ [][(pc # "check_open" \/ pc' = pc) => retry_count' = retry_count]_vars

\* an open attempt has succeeded after MAX_RETRIES - 1 failures in a row: the
\* count is about to go back to 0
C14_Witness ==
  pc = "check_open" /\ fd_global >= 0 /\ retry_count = MAX_RETRIES - 1

(* ------------------------------------------------------------------ *)
(* C15  reconnect_needed                                                *)
(* ------------------------------------------------------------------ *)
\* the screen of the open link has been cleared and scrolled
Initialised == init_wire = << FF >> \o LineFeeds(INIT_LINES)

\* a step that sets reconnect_needed is a signal delivery or main's reaction to
\* a failed send
SetOnlyByHupOrFailedSend ==
  (reconnect_needed = 0 /\ reconnect_needed' = 1)
    => (pc' = pc \/ (pc = "send_ret" /\ send_rc < 0))

\* C15 as stated: reconnect_needed is set only by SIGHUP or a failed send, and
\* a step that clears it leaves a link that is open and initialised.
C15_ClearedWhenInitialised ==
  /\ [][SetOnlyByHupOrFailedSend]_vars
  /\ [][(reconnect_needed = 1 /\ reconnect_needed' = 0)
          => (fd_global' \in open_fds' /\ Initialised')]_vars

\* C15, amended: reconnect_needed is set only by SIGHUP or a failed send; it
\* is cleared only by main's test of a successful open, before the
\* initialisation of the new link has written anything, and every successful
\* open clears it.
C15_ClearedWhenOpened ==
  /\ [][SetOnlyByHupOrFailedSend]_vars
  /\ [][(reconnect_needed = 1 /\ reconnect_needed' = 0)
          => (pc = "check_open" /\ fd_global \in open_fds /\ pc' = "init"
              /\ init_wire' = << >>)]_vars
  /\ [][(pc = "check_open" /\ fd_global >= 0 /\ pc' # pc) => reconnect_needed' = 0]_vars

\* a link that streamed was given up without a stop, so with reconnect_needed
\* set; the next open succeeded, its initialisation failed, and the flag is 0
C15_Witness ==
  /\ pc = "init_failed" /\ reconnect_needed = 0
  /\ pass_done /\ one_shot = 0 /\ ~stop_requested

(* ------------------------------------------------------------------ *)
(* C16  keep_running                                                    *)
(* ------------------------------------------------------------------ *)
\* keep_running starts at 1, never goes back from 0 to 1, and goes from 1 to
\* 0 only by a termination signal or when a one-shot pass has succeeded
KeepRunningMonotone ==
  /\ keep_running \in {0, 1}
  /\ (pc = "loop_head" /\ ~stop_requested /\ ~pass_done) => keep_running = 1

KeepRunningSteps ==
  /\ keep_running = 0 => keep_running' = 0
  /\ (keep_running = 1 /\ keep_running' = 0)
       => \/ pc' = pc /\ stop_requested'
          \/ pc = "send_ret" /\ send_rc >= 0 /\ one_shot # 0

\* C16 as stated: keep_running starts true, is set false only by a termination
\* signal or one-shot completion, never becomes true again, and once it is
\* false open_serial_port and send_file_to_minitel are not called any more.
C16_NoCallAfterStop ==
  /\ []KeepRunningMonotone
  /\ [][KeepRunningSteps]_vars
  /\ [][keep_running = 0 =>
          ~(pc = "open" /\ pc' # pc) /\ ~(pc = "send_start" /\ pc' # pc)]_vars

\* C16, amended: as above, but what keep_running = 0 rules out is that a loop
\* test lets the supervisor through to an open attempt or a send; the call
\* guarded by a test that passed before the flag fell is still made.
C16_NoTestPassesAfterStop ==
  /\ []KeepRunningMonotone
  /\ [][KeepRunningSteps]_vars
  /\ [][keep_running = 0 =>
          ~(pc = "loop_head" /\ pc' = "open")
          /\ ~(pc = "stream_head" /\ pc' = "send_start")]_vars

\* the stop arrived after the test of the main loop had passed: the open
\* attempt is about to be made with keep_running = 0
C16_Witness == pc = "open" /\ keep_running = 0 /\ stop_requested

(* ------------------------------------------------------------------ *)
(* C17  initialisation comes first                                      *)
(* ------------------------------------------------------------------ *)
\* positions at which the link has been handed to the streaming loop
StreamPcs == SendPcs \cup {"stream_head", "send_ret", "pass_sleep"}

\* positions inside init_minitel_screen and of main's test of its result
InitPcs == {"init", "init_lines", "init_failed"}

C18_ProbeStaleness ==
  /\ [](since_probe <= PROBE_EVERY)
  /\ [](pc = "s_write" => since_probe = bytes_sent % PROBE_EVERY)
  /\ [](pc \in {"s_loop", "s_wrap"} =>
          since_probe \in {bytes_sent % PROBE_EVERY, 0, PROBE_EVERY})
  /\ [][(pc = "s_loop" /\ pc' = "send_ret") =>
          /\ ProbeDue(bytes_sent)
          /\ CheckSerialConnection(fd_global, open_fds) = 0
          /\ send_rc' = -1
          /\ last_log' = "ERROR"
          /\ wire' = wire]_vars

\* the 101st content byte is about to be written and a probe has been made
\* since the 100th
C18_Witness ==
  pc = "s_write" /\ bytes_sent = PROBE_EVERY /\ since_probe = 0

(* ------------------------------------------------------------------ *)
(* C19  the transmitter neither retries nor closes                      *)
(* ------------------------------------------------------------------ *)
\* C19: when a write of a send fails (content byte, wrap sequence, trailing
\* CR, trailing line feed) the send is at its return with -1, having added
\* nothing to the wire in that step; between its call and the moment main has
\* read its result no step changes the handle or the descriptor table, and at
\* every return of a send that was called on an open link the link is still
\* open.
C19_NoRetryNoClose ==
  /\ []((io_failed /\ pc \notin InitPcs) => (pc = "send_ret" /\ send_rc = -1))
  /\ [][io_failed' /\ ~io_failed => wire' = wire /\ init_wire' = init_wire]_vars
  /\ [][(pc \in SendPcs /\ pc' \in SendPcs \cup {"send_ret"}) =>
          (fd_global' = fd_global /\ open_fds' = open_fds)]_vars
  /\ [][(pc \in SendPcs) => (pc' \in SendPcs \cup {"send_ret"})]_vars
  /\ [](pc = "send_ret" => fd_global \in open_fds)

\* a wrap sequence has failed after a full line had been forwarded: the send
\* is at its return and the link is still open
C19_Witness ==
  /\ pc = "send_ret" /\ send_rc = -1 /\ io_failed
  /\ Forwarded(wire) = CHARS_PER_LINE /\ Wraps(wire) = 0
  /\ fd_global \in open_fds

(* ------------------------------------------------------------------ *)
(* C20  the line cursor                                                 *)
(* ------------------------------------------------------------------ *)
\* the cursor is 0 when the reading loop of a send is first reached and after
\* every wrap
CursorResets ==
  /\ (pc = "send_start" /\ pc' = "s_loop") => count' = 0
  /\ (pc = "s_wrap" /\ pc' = "s_loop") => count' = 0

\* C20 as stated: count is 0 at the start of a send and after every wrap, and
\* 0 <= count < CHARS_PER_LINE wherever the send stands between two writes.
C20_CursorBelowWidth ==
  /\ [][CursorResets]_vars
  /\ [](pc \in {"s_loop", "s_write", "s_wrap", "s_cr", "s_lf"} =>
          (0 <= count /\ count < CHARS_PER_LINE))

\* C20, amended: count is 0 at the start of a send and after every wrap; it
\* stays within 0..CHARS_PER_LINE, is below CHARS_PER_LINE wherever the next
\* write is a content byte or the trailer, and equals CHARS_PER_LINE exactly
\* between the write of the 80th byte of a line and the wrap that follows it.
C20_CursorUpToWidth ==
  /\ [][CursorResets]_vars
  /\ [](pc \in {"s_loop", "s_write", "s_wrap", "s_cr", "s_lf"} =>
          (0 <= count /\ count <= CHARS_PER_LINE))
  /\ [](pc \in {"s_loop", "s_write", "s_cr", "s_lf"} => count < CHARS_PER_LINE)
  /\ [](pc = "s_wrap" => count = CHARS_PER_LINE)

\* the 80th byte of the second line has been written and its wrap has not
C20_Witness ==
  pc = "s_wrap" /\ count = CHARS_PER_LINE /\ Forwarded(wire) = 2 * CHARS_PER_LINE

(* ------------------------------------------------------------------ *)
(* C21  the value a successful send returns                             *)
(* ------------------------------------------------------------------ *)
\* C21: a send that returns success returns the number of content bytes it
\* has written to the link in that pass (line feeds dropped, wrap sequences
\* and trailer not counted).
C21_ReturnsBytesForwarded ==
  (pc = "send_ret" /\ send_rc >= 0) => send_rc = Forwarded(wire)

(* ------------------------------------------------------------------ *)
(* C22  failed initialisations and the retry budget                     *)
(* ------------------------------------------------------------------ *)
\* C22: a failed initialisation is not counted in retry_count: the count is 0
\* from the successful open to the loop head after the failed initialisation,
\* the step that handles the failure leaves it unchanged and does not
\* terminate, the fatal exit is taken only on a failed open, and a run of
\* initialisation failures with no failed open between them, however long,
\* ends only with a stop request and the clean exit.
C22_InitFailuresNotCharged ==
  /\ []((pc \in InitPcs \cup {"init_fail_sleep"}) => retry_count = 0)
  /\ []((init_fails > 0 /\ pc \in {"loop_head", "open", "configure"}) => retry_count = 0)
  /\ [][(pc \in {"init_failed", "init_fail_sleep"} /\ pc' # pc) =>
          (retry_count' = retry_count /\ pc' # "terminated")]_vars
  /\ [][(Fatal' /\ ~Fatal) => (pc = "check_open" /\ fd_global < 0)]_vars
  /\ []((Terminated /\ init_fails > 0) => (~Fatal /\ stop_requested))

\* more initialisations than the retry budget have failed in a row, no open
\* has failed, and the supervisor is about to try again
C22_Witness ==
  /\ pc = "init_fail_sleep" /\ init_fails > MAX_RETRIES
  /\ retry_count = 0 /\ consec_fail = 0 /\ keep_running = 1

====
